---- MODULE Spec2Model ----
(***************************************************************************)
(* Model of lrc-nom's `parse` (src/src/lib.rs): the LRC lyric parser.      *)
(*                                                                         *)
(* A line of text is a sequence of one-character strings, so that the tag  *)
(* scanner, the trimming and the number parsers work on the characters as  *)
(* the code does.  `parse` is one loop over the non-empty input lines; the *)
(* model takes one step per line the iterator yields.                      *)
(***************************************************************************)
EXTENDS Integers, Sequences, FiniteSets, TLC

VARIABLES
    lyric_lines,  \* the lines given to parse, in order (lib.rs:44)
    pos,          \* position in lyric_lines of the iterator's next line (lib.rs:64)
    i,            \* the counter of enumerate() (lib.rs:64)
    lrc_items,    \* the accumulator (lib.rs:62)
    result,       \* the value parse returns, Pending until it does
    pc            \* "loop" inside the for loop, "done" once parse has returned

vars == <<lyric_lines, pos, i, lrc_items, result, pc>>

----------------------------------------------------------------------------
(* Bounds of the model. *)

\* Longest document (in lines) drawn from the document pool.
MaxLines == 3
\* Most bracket segments on one line of the line pool.
MaxSegs == 2

----------------------------------------------------------------------------
(* Text helpers: Rust's &str operations used by parse. *)

Digits == {"0", "1", "2", "3", "4", "5", "6", "7", "8", "9"}

\* char::is_whitespace, restricted to the characters of the model's alphabet.
Whitespace == {" ", "\t"}

DigitVal(c) ==
    CASE c = "0" -> 0 [] c = "1" -> 1 [] c = "2" -> 2 [] c = "3" -> 3
      [] c = "4" -> 4 [] c = "5" -> 5 [] c = "6" -> 6 [] c = "7" -> 7
      [] c = "8" -> 8 [] c = "9" -> 9

RECURSIVE Pow10(_)
Pow10(n) == IF n = 0 THEN 1 ELSE 10 * Pow10(n - 1)

\* s with its first n characters removed, and the first n characters of s.
Drop(s, n) == SubSeq(s, n + 1, Len(s))

Take(s, n) == SubSeq(s, 1, n)

\* Position of the first occurrence of the character c in s, 0 when absent.
Find(s, c) ==
    IF \E k \in 1..Len(s) : s[k] = c
    THEN CHOOSE k \in 1..Len(s) : s[k] = c /\ \A j \in 1..(k - 1) : s[j] # c
    ELSE 0

\* str::trim: drops the leading and the trailing whitespace.
Trim(s) ==
    IF \A k \in 1..Len(s) : s[k] \in Whitespace THEN <<>>
    ELSE LET a == CHOOSE k \in 1..Len(s) :
                     s[k] \notin Whitespace /\ \A j \in 1..(k - 1) : s[j] \in Whitespace
             b == CHOOSE k \in 1..Len(s) :
                     s[k] \notin Whitespace /\ \A j \in (k + 1)..Len(s) : s[j] \in Whitespace
         IN SubSeq(s, a, b)

\* str::replace(':', "."): every colon becomes a dot.
ReplaceColon(s) == [k \in 1..Len(s) |-> IF s[k] = ":" THEN "." ELSE s[k]]

\* Value of a string of decimal digits, most significant first.
RECURSIVE DigitsValue(_)
DigitsValue(s) ==
    IF Len(s) = 0 THEN 0
    ELSE DigitsValue(Take(s, Len(s) - 1)) * 10 + DigitVal(s[Len(s)])

\* str::parse::<i64>: an optional sign, then one or more digits and nothing
\* else (no whitespace).  The digit strings of the model are short, so the
\* overflow error of the real parser is out of reach.
ParseI64(s) ==
    LET signed == Len(s) > 0 /\ s[1] \in {"+", "-"}
        body   == IF signed THEN Drop(s, 1) ELSE s
    IN IF Len(body) = 0 \/ \E k \in 1..Len(body) : body[k] \notin Digits
       THEN [ok |-> FALSE, v |-> 0]
       ELSE [ok |-> TRUE,
             v  |-> IF signed /\ s[1] = "-" THEN 0 - DigitsValue(body)
                    ELSE DigitsValue(body)]

\* rust_decimal's Decimal, as the triple sign, coefficient, scale:
\* the number (-1)^neg * m / 10^scale.
Dec(neg, m, scale) == [neg |-> neg, m |-> m, scale |-> scale]

\* Decimal::from_str_exact: an optional sign, then digits with at most one
\* decimal point; `_` separators are accepted once a digit has been read; at
\* least one digit is required.  (The 28-digit limit is out of reach of the
\* model's short strings.)
DecimalFromStrExact(s) ==
    LET signed == Len(s) > 0 /\ s[1] \in {"+", "-"}
        body   == IF signed THEN Drop(s, 1) ELSE s
        point  == Find(body, ".")
        digits == SelectSeq(body, LAMBDA c : c \in Digits)
        wellFormed ==
            /\ \A k \in 1..Len(body) : body[k] \in Digits \cup {".", "_"}
            /\ Cardinality({k \in 1..Len(body) : body[k] = "."}) <= 1
            /\ Len(digits) > 0
            /\ \A k \in 1..Len(body) :
                  body[k] = "_" => \E j \in 1..(k - 1) : body[j] \in Digits
    IN IF ~wellFormed THEN [ok |-> FALSE, v |-> Dec(FALSE, 0, 0)]
       ELSE [ok |-> TRUE,
             v  |-> Dec(signed /\ s[1] = "-",
                        DigitsValue(digits),
                        IF point = 0 THEN 0
                        ELSE Len(SelectSeq(Drop(body, point), LAMBDA c : c \in Digits)))]

\* Variant of MulThousand that scales to centiseconds.
MulHundred(d) == Dec(d.neg, d.m * 100, d.scale)

\* Decimal * dec!(1000): the coefficient is multiplied, the scale is kept.
MulThousand(d) == Dec(d.neg, d.m * 1000, d.scale)

\* Decimal::to_i64: the integral part, truncated toward zero.  None only when
\* the integral part does not fit an i64, which the model's short strings
\* never reach.
ToI64(d) ==
    LET q == d.m \div Pow10(d.scale)
    IN [ok |-> TRUE, v |-> IF d.neg THEN 0 - q ELSE q]

----------------------------------------------------------------------------
(* The tag scanner: many1(tuple((tag("["), take_until(":"), tag(":"),      *)
(* take_until("]"), tag("]")))).                                           *)

\* One application of the tuple parser to s: `[`, the text up to the first
\* `:`, the text from there up to the first `]`.
ScanTag(s) ==
    LET r1    == Drop(s, 1)
        colon == Find(r1, ":")
        r2    == Drop(r1, colon)
        close == Find(r2, "]")
    IN IF Len(s) = 0 \/ s[1] # "[" \/ colon = 0 \/ close = 0
       THEN [ok |-> FALSE, attr |-> <<>>, content |-> <<>>, rest |-> s]
       ELSE [ok      |-> TRUE,
             attr    |-> Take(r1, colon - 1),
             content |-> Take(r2, close - 1),
             rest    |-> Drop(r2, close)]

\* many1's loop after its first success: collects segments until the tuple
\* parser fails, and returns them with the unparsed remainder.
RECURSIVE ScanMore(_, _)
ScanMore(acc, s) ==
    LET t == ScanTag(s)
    IN IF ~t.ok THEN [ok |-> TRUE, tags |-> acc, text |-> s]
       ELSE ScanMore(Append(acc, [attr |-> t.attr, content |-> t.content]), t.rest)

\* tag_parser(line): fails when the line does not begin with a segment.
TagParser(line) ==
    IF ~ScanTag(line).ok THEN [ok |-> FALSE, tags |-> <<>>, text |-> line]
    ELSE ScanMore(<<>>, line)

----------------------------------------------------------------------------
(* Items and results. *)

\* LrcItem::Metadata(LrcMetadata::<variant>(text)) for the textual variants.
Metadata(variant, text) ==
    [type |-> "Metadata", variant |-> variant, text |-> text, num |-> 0]

\* LrcItem::Metadata(LrcMetadata::Offset(n)).
OffsetItem(n) ==
    [type |-> "Metadata", variant |-> "Offset", text |-> <<>>, num |-> n]

\* LrcItem::Lyric(text, timestamp).
Lyric(text, timestamp) ==
    [type |-> "Lyric", variant |-> "Lyric", text |-> text, num |-> timestamp]

\* The value parse has not returned yet.
Pending == [tag |-> "Pending", kind |-> "", line |-> 0, items |-> <<>>]

Ok(items) == [tag |-> "Ok", kind |-> "", line |-> 0, items |-> items]

\* Err(LrcParseError::<kind>(line)).
Err(kind, line) == [tag |-> "Err", kind |-> kind, line |-> line, items |-> <<>>]

----------------------------------------------------------------------------
(* The match on the first segment (lib.rs, lines 67-113). *)

\* The tag names the match compares attr.trim() with.
AttrAr == <<"a", "r">>
AttrAl == <<"a", "l">>
AttrTi == <<"t", "i">>
AttrAu == <<"a", "u">>
AttrLength == <<"l", "e", "n", "g", "t", "h">>
AttrBy == <<"b", "y">>
AttrOffset == <<"o", "f", "f", "s", "e", "t">>
AttrRe == <<"r", "e">>
AttrVe == <<"v", "e">>

\* The arms that push a textual metadata item: tag name to LrcMetadata variant.
MetadataVariant(attr) ==
    CASE attr = AttrAr     -> "Artist"
      [] attr = AttrAl     -> "Album"
      [] attr = AttrTi     -> "Title"
      [] attr = AttrAu     -> "Lyricist"
      [] attr = AttrLength -> "Length"
      [] attr = AttrBy     -> "Author"
      [] attr = AttrRe     -> "Application"
      [] attr = AttrVe     -> "AppVersion"
      [] OTHER             -> "None"

\* The arm a line with first segment `first` takes; the arms are tried in
\* the order of the source.
Arm(first) ==
    IF first.attr = <<>> /\ first.content = <<>> THEN "comment"
    ELSE IF MetadataVariant(Trim(first.attr)) # "None" THEN "metadata"
    ELSE IF Trim(first.attr) = AttrOffset THEN "offset"
    ELSE IF ParseI64(Trim(first.attr)).ok THEN "timestamp"
    ELSE "ignored"

\* Variant of MetadataItem that keeps the content untrimmed.
MetadataItemUntrimmed(first) == Metadata(MetadataVariant(Trim(first.attr)), first.content)

\* The item a textual metadata arm pushes.
MetadataItem(first) == Metadata(MetadataVariant(Trim(first.attr)), Trim(first.content))

\* The closure applied to every segment of a timestamp line: the item, or
\* the InvalidTimestamp error its `?` operators return from the closure.
DecodeSegment(seg, text, n) ==
    LET d == DecimalFromStrExact(ReplaceColon(seg.content))
        m == ParseI64(seg.attr)
        t == ToI64(MulThousand(d.v))
    IN IF ~d.ok \/ ~m.ok \/ ~t.ok
       THEN [ok |-> FALSE, item |-> Lyric(<<>>, 0), err |-> Err("InvalidTimestamp", n)]
       ELSE [ok   |-> TRUE,
             item |-> Lyric(text, m.v * 60 * 1000 + t.v),
             err  |-> Pending]

\* Variant of LyricItems that decodes the first segment only.
LyricItemsFirstOnly(tags, text, n) ==
    LET r == DecodeSegment(Head(tags), text, n)
    IN IF r.ok THEN <<r.item>> ELSE <<>>

\* tags.into_iter().map(closure).flatten(): flattening an iterator of
\* Results keeps the Ok values and drops the Err ones.
RECURSIVE LyricItems(_, _, _)
LyricItems(tags, text, n) ==
    IF Len(tags) = 0 THEN <<>>
    ELSE LET r == DecodeSegment(Head(tags), text, n)
         IN (IF r.ok THEN <<r.item>> ELSE <<>>) \o LyricItems(Tail(tags), text, n)

----------------------------------------------------------------------------
(* The inputs of the model. *)

SegText(attr, content) == <<"[">> \o attr \o <<":">> \o content \o <<"]">>

\* First segments, by the arm they aim at: tag names as written, padded
\* with whitespace, in the wrong case, and the `#` tag.
MetaFirst ==
    { SegText(a, c) :
        a \in { AttrAr, AttrAl, AttrTi, AttrAu, AttrLength, AttrBy, AttrRe, AttrVe,
                <<" ", "a", "r", "\t">>, <<"A", "R">>, <<"#">> },
        c \in { <<>>, <<" ", "a", " ", "b", " ">>, <<"a", "b", "c">> } }

OffsetFirst ==
    { SegText(a, c) :
        a \in { AttrOffset, <<"o", "f", "f", "s", "e", "t", " ">> },
        c \in { <<"-", "2", "5", "0">>, <<" ", "7", " ">>, <<"a", "b", "c">>, <<>>,
                <<"1", ".", "5">> } }

TimeFirst ==
    { SegText(a, c) :
        a \in { <<"0", "0">>, <<"1">>, <<"-", "1">>, <<" ", "0", "2">> },
        c \in { <<"1", "2", ".", "3", "4">>, <<"1", "2", ":", "3", "4">>,
                <<"1", ".", "2", "3", "4", "5">>, <<"-", "1", ".", "5">>,
                <<"1", ":", "2", ":", "3">>, <<"a", "b", "c">>, <<>> } }

OtherFirst ==
    { SegText(a, c) :
        a \in { <<>>, <<" ">>, <<"z", "z">>, <<"1", "x">> },
        c \in { <<>>, <<"a", "b", "c">>, <<"1", "2", ".", "3", "4">> } }

FirstSegs == MetaFirst \cup OffsetFirst \cup TimeFirst \cup OtherFirst

LaterSegs ==
    { SegText(<<"2">>, <<"1", ".", "5">>),
      SegText(<<"1", "0">>, <<"0", ":", "0", "7">>),
      SegText(<<"x">>, <<"1", ".", "5">>),
      SegText(<<"1">>, <<"y">>),
      SegText(<<" ", "3">>, <<"1">>),
      SegText(<<"z", "z">>, <<"a">>) }

Texts == { <<>>, <<"H", "i">>, <<" ", "t", " ">> }

\* Every concatenation of at most n later segments.
RECURSIVE Tails(_)
Tails(n) ==
    IF n = 0 THEN {<<>>}
    ELSE Tails(n - 1) \cup {t \o seg : t \in Tails(n - 1), seg \in LaterSegs}

\* Lines that do not start with a well-formed segment, the empty line among
\* them, and a timestamp line whose middle segment does not decode.
RawLines ==
    { <<>>, <<" ">>, <<"\t", " ">>, <<"H", "i">>, <<"[", "a", "r">>,
      <<"[", "a", "r", "]">>, <<"x", "[", "a", "r", ":", "A", "]">>,
      <<"[", "a", "r", ":", "A">>,
      SegText(<<"0">>, <<"1", ".", "5">>) \o SegText(<<"x">>, <<"1">>)
          \o SegText(<<"1">>, <<"2">>) \o <<"t">> }

Lines ==
    RawLines \cup
    { f \o t \o x : f \in FirstSegs, t \in Tails(MaxSegs - 1), x \in Texts }

\* The lines the multi-line documents are made of: one of every outcome.
DocLines ==
    { <<>>, <<" ">>, <<"H", "i">>,
      SegText(AttrAr, <<" ", "A", " ">>),
      SegText(AttrOffset, <<"x">>),
      SegText(<<"0">>, <<"1", ".", "5">>) \o SegText(<<"1">>, <<"2">>) \o <<"t">>,
      SegText(<<"0">>, <<"x">>) \o <<"t">>,
      SegText(<<>>, <<>>) \o <<"c">> }

Documents == UNION {[1..n -> DocLines] : n \in 0..MaxLines}

----------------------------------------------------------------------------
(* parse, one step per line of the input. *)

Init ==
    /\ lyric_lines \in Documents \cup {<<l>> : l \in Lines}
    /\ pos = 1
    /\ i = 0
    /\ lrc_items = <<>>
    /\ result = Pending
    /\ pc = "loop"

\* The loop has a next line to look at.
AtLine == pc = "loop" /\ pos <= Len(lyric_lines)

\* The line the iterator is at, and what the tag parser makes of it.
Line == lyric_lines[pos]

Parsed == TagParser(Line)

\* A line that yields nothing and lets the loop go on.
NextLine ==
    /\ pos' = pos + 1
    /\ i' = i + 1
    /\ UNCHANGED <<lyric_lines, lrc_items, result, pc>>

\* A line that pushes `items` and lets the loop go on.
Push(items) ==
    /\ lrc_items' = lrc_items \o items
    /\ pos' = pos + 1
    /\ i' = i + 1
    /\ UNCHANGED <<lyric_lines, result, pc>>

\* An early return of Err(kind(i)).
Return(kind) ==
    /\ result' = Err(kind, i)
    /\ pc' = "done"
    /\ UNCHANGED <<lyric_lines, pos, i, lrc_items>>

\* .filter(|l| !l.is_empty()): an empty line never reaches enumerate().
FilterEmpty ==
    /\ AtLine
    /\ Line = <<>>
    /\ pos' = pos + 1
    /\ UNCHANGED <<lyric_lines, i, lrc_items, result, pc>>

\* Err(_) => return Err(NoTagInNonEmptyLine(i)).
NoTag ==
    /\ AtLine
    /\ Line # <<>>
    /\ ~Parsed.ok
    /\ Return("NoTagInNonEmptyLine")

\* Variant of CommentLine that pushes the trailing text as an item.
CommentLinePush ==
    /\ AtLine
    /\ Line # <<>>
    /\ Parsed.ok
    /\ Arm(Parsed.tags[1]) = "comment"
    /\ Push(<<Metadata("Comment", Parsed.text)>>)

\* (_, "", _, "", _) => continue.
CommentLine ==
    /\ AtLine
    /\ Line # <<>>
    /\ Parsed.ok
    /\ Arm(Parsed.tags[1]) = "comment"
    /\ NextLine

\* "ar" | "al" | "ti" | "au" | "length" | "by" | "re" | "ve" => push.
MetadataLine ==
    /\ AtLine
    /\ Line # <<>>
    /\ Parsed.ok
    /\ Arm(Parsed.tags[1]) = "metadata"
    /\ Push(<<MetadataItem(Parsed.tags[1])>>)

\* Variant of OffsetLine that drops the error and goes on.
OffsetLineSwallow ==
    /\ AtLine
    /\ Line # <<>>
    /\ Parsed.ok
    /\ Arm(Parsed.tags[1]) = "offset"
    /\ LET v == ParseI64(Trim(Parsed.tags[1].content))
       IN IF v.ok THEN Push(<<OffsetItem(v.v)>>) ELSE NextLine

\* "offset" => push Offset(content.trim().parse()?), the error being
\* InvalidOffset(i).
OffsetLine ==
    /\ AtLine
    /\ Line # <<>>
    /\ Parsed.ok
    /\ Arm(Parsed.tags[1]) = "offset"
    /\ LET v == ParseI64(Trim(Parsed.tags[1].content))
       IN IF v.ok THEN Push(<<OffsetItem(v.v)>>) ELSE Return("InvalidOffset")

\* _minute if _minute.parse::<i64>().is_ok() => extend with the decoded
\* segments.
TimestampLine ==
    /\ AtLine
    /\ Line # <<>>
    /\ Parsed.ok
    /\ Arm(Parsed.tags[1]) = "timestamp"
    /\ Push(LyricItems(Parsed.tags, Parsed.text, i))

\* Variant of IgnoredLine that rejects the unrecognised tag.
IgnoredLineError ==
    /\ AtLine
    /\ Line # <<>>
    /\ Parsed.ok
    /\ Arm(Parsed.tags[1]) = "ignored"
    /\ Return("NoTagInNonEmptyLine")

\* _ => (): unrecognised tags are ignored.
IgnoredLine ==
    /\ AtLine
    /\ Line # <<>>
    /\ Parsed.ok
    /\ Arm(Parsed.tags[1]) = "ignored"
    /\ NextLine

\* Ok(lrc_items), once the iterator is exhausted.
Finish ==
    /\ pc = "loop"
    /\ pos > Len(lyric_lines)
    /\ result' = Ok(lrc_items)
    /\ pc' = "done"
    /\ UNCHANGED <<lyric_lines, pos, i, lrc_items>>

Next ==
    \/ FilterEmpty
    \/ NoTag
    \/ CommentLine
    \/ MetadataLine
    \/ OffsetLine
    \/ TimestampLine
    \/ IgnoredLine
    \/ Finish

Spec == Init /\ [][Next]_vars

TypeOK ==
    /\ pos \in 1..(Len(lyric_lines) + 1)
    /\ i \in 0..Len(lyric_lines)
    /\ pc \in {"loop", "done"}
    /\ result.tag \in {"Pending", "Ok", "Err"}
    /\ (pc = "done") = (result.tag # "Pending")

----------------------------------------------------------------------------
(* What the specification says of a line, stated without the parser's own  *)
(* operators where a second formulation exists.                            *)

\* A blank or whitespace-only line.
IsBlank(l) == \A k \in 1..Len(l) : l[k] \in {" ", "\t"}

\* t is v without its leading and trailing whitespace.
IsTrimOf(t, v) ==
    /\ Len(t) > 0 => (t[1] \notin Whitespace /\ t[Len(t)] \notin Whitespace)
    /\ \E a \in 0..Len(v) : \E b \in a..Len(v) :
          /\ t = SubSeq(v, a + 1, b)
          /\ \A k \in (1..a) \cup ((b + 1)..Len(v)) : v[k] \in Whitespace

\* s is written as an integer: an optional sign and one or more digits.
IsIntegerText(s) ==
    LET d == IF Len(s) > 0 /\ s[1] \in {"+", "-"} THEN Tail(s) ELSE s
    IN d # <<>> /\ {d[k] : k \in 1..Len(d)} \subseteq Digits

\* The number a string of digits denotes, as the sum of its place values.
RECURSIVE PlaceValue(_, _)
PlaceValue(d, k) ==
    IF k > Len(d) THEN 0
    ELSE DigitVal(d[k]) * Pow10(Len(d) - k) + PlaceValue(d, k + 1)

IntegerValue(s) ==
    IF s[1] = "-" THEN 0 - PlaceValue(Tail(s), 1)
    ELSE IF s[1] = "+" THEN PlaceValue(Tail(s), 1)
    ELSE PlaceValue(s, 1)

\* Position of the fractional separator (`.` or `:`) of s, 0 when s has none.
SeparatorAt(s) ==
    IF \E k \in 1..Len(s) : s[k] \in {".", ":"}
    THEN CHOOSE k \in 1..Len(s) : s[k] \in {".", ":"}
    ELSE 0

\* s is written as a decimal number of seconds: an optional sign, digits,
\* and optionally one separator between two runs of digits.
IsDecimalText(s) ==
    LET d   == IF Len(s) > 0 /\ s[1] \in {"+", "-"} THEN Tail(s) ELSE s
        sep == SeparatorAt(d)
    IN /\ d # <<>>
       /\ \A k \in 1..Len(d) : k # sep => d[k] \in Digits
       /\ sep # 1 /\ sep # Len(d)

\* seconds * 1000 cut to an integer: the whole seconds as milliseconds plus
\* the first three fractional digits, with the sign of the number.
SecondsAsMillis(s) ==
    LET d     == IF s[1] \in {"+", "-"} THEN Tail(s) ELSE s
        sep   == SeparatorAt(d)
        whole == IF sep = 0 THEN d ELSE SubSeq(d, 1, sep - 1)
        frac  == IF sep = 0 THEN <<>> ELSE SubSeq(d, sep + 1, Len(d))
        three == SubSeq(frac \o <<"0", "0", "0">>, 1, 3)
        abs   == PlaceValue(whole, 1) * 1000 + PlaceValue(three, 1)
    IN IF s[1] = "-" THEN 0 - abs ELSE abs

\* A segment written as minutes and seconds, and the timestamp it denotes.
IsTimeSegment(seg) == IsIntegerText(seg.attr) /\ IsDecimalText(seg.content)

ExpectedMillis(seg) == IntegerValue(seg.attr) * 60000 + SecondsAsMillis(seg.content)

\* The specification's table of metadata codes.
SpecVariant(code) ==
    CASE code = <<"a", "r">> -> "Artist"
      [] code = <<"a", "l">> -> "Album"
      [] code = <<"t", "i">> -> "Title"
      [] code = <<"a", "u">> -> "Lyricist"
      [] code = <<"l", "e", "n", "g", "t", "h">> -> "Length"
      [] code = <<"b", "y">> -> "Author"
      [] code = <<"r", "e">> -> "Application"
      [] code = <<"v", "e">> -> "AppVersion"
      [] code = <<"#">> -> "Comment"
      [] OTHER -> "None"

\* The text of the segments, written back in order.
RECURSIVE Rewritten(_)
Rewritten(tags) ==
    IF Len(tags) = 0 THEN <<>>
    ELSE SegText(Head(tags).attr, Head(tags).content) \o Rewritten(Tail(tags))

\* The loop is at a non-empty line that starts with a segment.
AtTaggedLine == AtLine /\ Line # <<>> /\ Parsed.ok

\* The first segment of the line the loop is at, and its trimmed key.
First == Parsed.tags[1]

Key == Trim(First.attr)

\* The line the loop is at is a timestamp line.
AtTimestampLine == AtTaggedLine /\ IsIntegerText(Key)

\* The step left the item list and the result as they were and moved on.
Skipped ==
    /\ lrc_items' = lrc_items
    /\ result' = result
    /\ pc' = "loop"
    /\ pos' = pos + 1

\* The step pushed exactly `item` and moved on.
Pushed(item) ==
    /\ lrc_items' = Append(lrc_items, item)
    /\ result' = result
    /\ pc' = "loop"
    /\ pos' = pos + 1

\* The line the loop consumed last, once it has consumed one.
LastLine == lyric_lines[pos - 1]

LastParsed == TagParser(LastLine)

----------------------------------------------------------------------------
(* The claims. *)

\* C1: whenever parse fails, the line number of the error is the 0-based
\* position, in the input as the caller gave it, of the line that failed
\* (a line that is not blank: the claim counts no blank line as invalid).
C1_ErrorLineIsInputPosition ==
    (result.tag = "Err" /\ ~IsBlank(lyric_lines[pos])) => result.line = pos - 1

\* The outcome of one line on its own: the error kind it returns, or "None".
FailKind(l) ==
    IF l = <<>> THEN "None"
    ELSE IF ~TagParser(l).ok THEN "NoTagInNonEmptyLine"
    ELSE IF /\ Trim(TagParser(l).tags[1].attr) = AttrOffset
            /\ ~IsIntegerText(Trim(TagParser(l).tags[1].content))
         THEN "InvalidOffset"
    ELSE "None"

\* The items one line yields on its own.
ItemsOf(l) ==
    IF l = <<>> \/ FailKind(l) # "None" THEN <<>>
    ELSE LET p == TagParser(l)
             a == Arm(p.tags[1])
         IN CASE a = "metadata"  -> <<MetadataItem(p.tags[1])>>
              [] a = "offset"    -> <<OffsetItem(IntegerValue(Trim(p.tags[1].content)))>>
              [] a = "timestamp" -> LyricItems(p.tags, p.text, 0)
              [] OTHER           -> <<>>

\* The items of the lines ls, concatenated in input order.
RECURSIVE Concatenated(_)
Concatenated(ls) ==
    IF Len(ls) = 0 THEN <<>> ELSE ItemsOf(Head(ls)) \o Concatenated(Tail(ls))

\* Position of the first line of ls that fails, 0 when none does.
FirstFailing(ls) ==
    IF \E k \in 1..Len(ls) : FailKind(ls[k]) # "None"
    THEN CHOOSE k \in 1..Len(ls) :
            FailKind(ls[k]) # "None" /\ \A j \in 1..(k - 1) : FailKind(ls[j]) = "None"
    ELSE 0

\* C2: parse is fail-fast and all-or-nothing: it returns the error of the
\* first failing line, with no item and without consuming a later line, or
\* Ok of the concatenation, in input order, of the items of every line.
C2_FailFastAllOrNothing ==
    pc = "done" =>
        LET k == FirstFailing(lyric_lines)
        IN IF k = 0
           THEN result.tag = "Ok" /\ result.items = Concatenated(lyric_lines)
           ELSE /\ result.tag = "Err"
                /\ result.kind = FailKind(lyric_lines[k])
                /\ result.items = <<>>
                /\ pos = k

\* An error returned after earlier lines had pushed items, with lines left.
C2_Witness ==
    /\ pc = "done"
    /\ result.tag = "Err"
    /\ Len(lrc_items) > 0
    /\ pos < Len(lyric_lines)

\* C3: a blank or whitespace-only line yields no item and no error.
C3_BlankLinesSkipped ==
    [][(AtLine /\ IsBlank(Line)) =>
          (lrc_items' = lrc_items /\ result' = result /\ pos' = pos + 1)]_vars

\* Every segment of the timestamp line the loop is at is a time segment.
AllTimeSegments ==
    /\ AtTimestampLine
    /\ \A j \in 1..Len(Parsed.tags) : IsTimeSegment(Parsed.tags[j])

Decoded(tags, j) == Cardinality({k \in 1..j : DecodeSegment(tags[k], <<>>, 0).ok})

\* C5: every time segment of a timestamp line is decoded to
\* minutes * 60000 + seconds * 1000 cut to an integer, exactly.
C5_TimestampValue ==
    [][AtTimestampLine =>
          \A j \in 1..Len(Parsed.tags) :
             IsTimeSegment(Parsed.tags[j]) =>
                LET at == Len(lrc_items) + Decoded(Parsed.tags, j)
                IN /\ Decoded(Parsed.tags, j) > Decoded(Parsed.tags, j - 1)
                   /\ at <= Len(lrc_items')
                   /\ lrc_items'[at].num = ExpectedMillis(Parsed.tags[j])]_vars

\* A line whose first segment writes the seconds with a `:` separator was
\* consumed and its timestamp pushed.
C5_Witness ==
    /\ pos > 1
    /\ LastParsed.ok
    /\ IsTimeSegment(LastParsed.tags[1])
    /\ \E k \in 1..Len(LastParsed.tags[1].content) : LastParsed.tags[1].content[k] = ":"
    /\ Len(lrc_items) > 0
    /\ lrc_items[1].num = ExpectedMillis(LastParsed.tags[1])
    /\ lrc_items[1].num > 0

\* C6: on a timestamp line, a segment that is not a time segment makes parse
\* fail with InvalidTimestamp and the number of that line.
C6_InvalidTimestampReturned ==
    [][(AtTimestampLine /\ \E j \in 1..Len(Parsed.tags) : ~IsTimeSegment(Parsed.tags[j])) =>
          result' = Err("InvalidTimestamp", pos - 1)]_vars

\* The step pushed exactly one item of `variant` holding the trimmed value
\* of the first segment.
PushedTrimmedValue(variant) ==
    \E a \in 0..Len(First.content) : \E b \in a..Len(First.content) :
       LET t == SubSeq(First.content, a + 1, b)
       IN IsTrimOf(t, First.content) /\ Pushed(Metadata(variant, t))

AtEmptyTag == AtLine /\ Len(Line) >= 3 /\ SubSeq(Line, 1, 3) = <<"[", ":", "]">>

C9_Offset ==
    [][(AtTaggedLine /\ Key = <<"o", "f", "f", "s", "e", "t">>) =>
          IF IsIntegerText(Trim(First.content))
          THEN Pushed(OffsetItem(IntegerValue(Trim(First.content))))
          ELSE /\ result' = Err("InvalidOffset", pos - 1)
               /\ lrc_items' = lrc_items]_vars

\* The first segment is none of the forms the classifier knows.
Unrecognised ==
    /\ SpecVariant(Key) = "None"
    /\ Key # <<"o", "f", "f", "s", "e", "t">>
    /\ ~IsIntegerText(Key)
    /\ ~(First.attr = <<>> /\ First.content = <<>>)

\* C10: a line whose first segment is unrecognised yields no item and no
\* error, whatever its later segments and trailing text, and the parse goes
\* on with the next line.
C10_UnrecognisedIgnored ==
    [][(AtTaggedLine /\ Unrecognised) => Skipped]_vars

\* An unrecognised first segment followed by a valid time segment and text
\* was consumed and left nothing.
C10_Witness ==
    /\ pc = "done"
    /\ Len(lyric_lines) = 1
    /\ pos > 1
    /\ LastParsed.ok
    /\ Len(LastParsed.tags) >= 2
    /\ SpecVariant(Trim(LastParsed.tags[1].attr)) = "None"
    /\ ~IsIntegerText(Trim(LastParsed.tags[1].attr))
    /\ LastParsed.tags[1].attr # <<>>
    /\ IsTimeSegment(LastParsed.tags[2])
    /\ LastParsed.text # <<>>
    /\ result = Ok(<<>>)

====
